---- MODULE Spec2Model ----
(***************************************************************************)
(* Model of ai-test-generator/app.py: the /generate and /regenerate        *)
(* handlers, the prompt renderer and the fenced-code extraction, over a    *)
(* file system of two folders (uploads, generated_tests).                  *)
(*                                                                         *)
(* Text is a sequence of one-character strings, so that find, replace,     *)
(* split, strip and lower are computed character by character as Python    *)
(* computes them.                                                          *)
(***************************************************************************)
EXTENDS Integers, Sequences, FiniteSets, TLC

VARIABLES uploads, generated_tests, next_uuid, request, gateway, response

vars == <<uploads, generated_tests, next_uuid, request, gateway, response>>

----------------------------------------------------------------------------
(* Bounds *)

\* number of uploads that can be saved (each takes a fresh uuid)
MaxUploads == 3

\* number of chunks a raw gateway response is built from in ExtractSpec
MaxChunks == 5

----------------------------------------------------------------------------
(* Python str operations, on sequences of characters *)

Min(S) == CHOOSE x \in S : \A y \in S : x <= y

Max(S) == CHOOSE x \in S : \A y \in S : x >= y

\* s[a:b] for 0 <= a, b (0-based, end exclusive, clamped as Python does)
Slice(s, a, b) ==
    LET e == IF b > Len(s) THEN Len(s) ELSE b
    IN  IF a >= e THEN <<>> ELSE SubSeq(s, a + 1, e)

\* s[i:i+len(sub)] == sub
IsAt(s, sub, i) ==
    /\ i >= 0
    /\ i + Len(sub) <= Len(s)
    /\ \A k \in 1..Len(sub) : s[i + k] = sub[k]

\* s.find(sub, start): lowest 0-based index, -1 when absent
find(s, sub, start) ==
    LET idx == {i \in start..(Len(s) - Len(sub)) : IsAt(s, sub, i)}
    IN  IF idx = {} THEN -1 ELSE Min(idx)

\* sub in s
Contains(s, sub) == find(s, sub, 0) # -1

Whitespace == {" ", "\n", "\t", "\r"}

\* s.strip()
strip(s) ==
    LET keep == {i \in 1..Len(s) : s[i] \notin Whitespace}
    IN  IF keep = {} THEN <<>> ELSE SubSeq(s, Min(keep), Max(keep))

\* s.strip(chars)
stripChars(s, chars) ==
    LET keep == {i \in 1..Len(s) : s[i] \notin chars}
    IN  IF keep = {} THEN <<>> ELSE SubSeq(s, Min(keep), Max(keep))

\* s.replace(old, new), old non-empty: left to right, non-overlapping
RECURSIVE replace(_, _, _)
replace(s, old, new) ==
    LET i == find(s, old, 0)
    IN  IF i = -1 THEN s
        ELSE Slice(s, 0, i) \o new \o replace(Slice(s, i + Len(old), Len(s)), old, new)

\* s.split(sep), sep non-empty
RECURSIVE split(_, _)
split(s, sep) ==
    LET i == find(s, sep, 0)
    IN  IF i = -1 THEN <<s>>
        ELSE <<Slice(s, 0, i)>> \o split(Slice(s, i + Len(sep), Len(s)), sep)

\* sep.join(parts)
RECURSIVE join(_, _)
join(sep, parts) ==
    IF Len(parts) = 0 THEN <<>>
    ELSE IF Len(parts) = 1 THEN parts[1]
    ELSE parts[1] \o sep \o join(sep, Tail(parts))

UpperCase == <<"A","B","C","D","E","F","G","H","I","J","K","L","M",
               "N","O","P","Q","R","S","T","U","V","W","X","Y","Z">>

LowerCase == <<"a","b","c","d","e","f","g","h","i","j","k","l","m",
               "n","o","p","q","r","s","t","u","v","w","x","y","z">>

\* the lower-case letter of each upper-case letter
ToLower ==
    [c \in {UpperCase[i] : i \in 1..26} |-> LowerCase[CHOOSE i \in 1..26 : UpperCase[i] = c]]

lowerChar(c) == IF c \in DOMAIN ToLower THEN ToLower[c] ELSE c

\* s.lower()
lower(s) == [i \in 1..Len(s) |-> lowerChar(s[i])]

\* s.rsplit('.', 1)[1], for s containing '.'
rsplitExt(s) ==
    LET dots == {i \in 1..Len(s) : s[i] = "."}
    IN  SubSeq(s, Max(dots) + 1, Len(s))

\* the decimal digit of a small number, as a character
Digit(n) == <<"0","1","2","3","4","5","6","7","8","9">>[(n % 10) + 1]

----------------------------------------------------------------------------
(* Texts of the program *)

\* The grave accent (U+0060): the TLA+ lexer takes no grave accent inside a
\* string, so the character is written as this token.
BACKTICK == "GRAVE"

FENCE == <<BACKTICK, BACKTICK, BACKTICK>>

FENCE_JAVA == FENCE \o <<"j","a","v","a">>

TESTS_SUFFIX == <<"_","T","e","s","t","s",".","j","a","v","a">>

COMMA_SPACE == <<","," ">>

NONE_TEXT == <<"N","o","n","e">>

NA_TEXT == <<"N","/","A">>

API_TEST == <<"A","p","i","T","e","s","t">>

ALLOWED_EXTENSIONS == {<<"j","s","o","n">>, <<"y","a","m","l">>, <<"y","m","l">>}

\* characters secure_filename of werkzeug keeps
SafeChars ==
    {UpperCase[i] : i \in 1..26} \cup {LowerCase[i] : i \in 1..26}
        \cup {Digit(n) : n \in 0..9} \cup {"_", ".", "-"}

----------------------------------------------------------------------------
(* Pure functions of app.py *)

allowed_file(filename) ==
    /\ \E i \in 1..Len(filename) : filename[i] = "."
    /\ lower(rsplitExt(filename)) \in ALLOWED_EXTENSIONS

\* "_".join(filename.split()): runs of whitespace become one "_", none at the ends
RECURSIVE joinWords(_)
joinWords(s) ==
    LET t == strip(s)
        ws == {i \in 1..Len(t) : t[i] \in Whitespace}
    IN  IF ws = {} THEN t
        ELSE SubSeq(t, 1, Min(ws) - 1) \o <<"_">> \o joinWords(SubSeq(t, Min(ws) + 1, Len(t)))

\* werkzeug.utils.secure_filename on an ASCII name without path separators
secure_filename(filename) ==
    stripChars(SelectSeq(joinWords(filename), LAMBDA c : c \in SafeChars), {".", "_"})

\* p.get('name', '')
param_name(p) == IF p.has_name THEN p.name ELSE <<>>

\* ", ".join([p.get('name', '') for p in endpoint.get('parameters', [])])
params_joined(endpoint) ==
    join(COMMA_SPACE, [i \in 1..Len(endpoint.parameters) |-> param_name(endpoint.parameters[i])])

\* the four rendered lines of one endpoint of endpoints_summary
endpoint_summary(endpoint) ==
    LET params == params_joined(endpoint)
        responses == join(COMMA_SPACE, endpoint.responses)
    IN  [ line       |-> endpoint.method \o <<" ">> \o endpoint.path,
          Summary    |-> IF endpoint.has_summary THEN endpoint.summary ELSE NA_TEXT,
          Parameters |-> IF params # <<>> THEN params ELSE NONE_TEXT,
          Responses  |-> IF responses # <<>> THEN responses ELSE NA_TEXT ]

\* The spec-derived parts of the prompt template: the title line, the
\* endpoints block and the class name of the closing scaffold.  The fixed
\* boilerplate between them is the same in every prompt and is left out.
create_test_generation_prompt(api_info) ==
    [ Title     |-> api_info.title,
      Endpoints |-> [i \in 1..Len(api_info.endpoints) |-> endpoint_summary(api_info.endpoints[i])],
      ClassName |-> replace(api_info.title, <<" ">>, <<>>) \o API_TEST ]

\* f"{api_info['title'].replace(' ', '_')}_Tests.java"
test_filename_of(title) == replace(title, <<" ">>, <<"_">>) \o TESTS_SUFFIX

\* filename.replace('_Tests.java', '').replace('_', ' ')
api_title_of(filename) == replace(replace(filename, TESTS_SUFFIX, <<>>), <<"_">>, <<" ">>)

\* api_title.lower().replace(" ", "") in f.lower()
matches_upload(api_title, f) == Contains(lower(f), replace(lower(api_title), <<" ">>, <<>>))

\* extractCode with the closing fence searched from the start of the text
\* instead of from code_start
extractCode_end_from_start(improved_tests) ==
    IF Contains(improved_tests, FENCE_JAVA)
    THEN LET code_start == find(improved_tests, FENCE_JAVA, 0) + Len(FENCE_JAVA)
             code_end   == find(improved_tests, FENCE, 0)
         IN  IF code_end # -1
             THEN strip(Slice(improved_tests, code_start, code_end))
             ELSE improved_tests
    ELSE IF Contains(improved_tests, FENCE)
    THEN LET parts == split(improved_tests, FENCE)
         IN  IF Len(parts) >= 3 THEN strip(parts[2]) ELSE improved_tests
    ELSE improved_tests

\* extractCode with the text trimmed when it holds no fence
extractCode_strip_plain(improved_tests) ==
    IF Contains(improved_tests, FENCE_JAVA)
    THEN LET code_start == find(improved_tests, FENCE_JAVA, 0) + Len(FENCE_JAVA)
             code_end   == find(improved_tests, FENCE, code_start)
         IN  IF code_end # -1
             THEN strip(Slice(improved_tests, code_start, code_end))
             ELSE improved_tests
    ELSE IF Contains(improved_tests, FENCE)
    THEN LET parts == split(improved_tests, FENCE)
         IN  IF Len(parts) >= 3 THEN strip(parts[2]) ELSE improved_tests
    ELSE strip(improved_tests)

\* the code-block extraction of regenerate_tests
extractCode(improved_tests) ==
    IF Contains(improved_tests, FENCE_JAVA)
    THEN LET code_start == find(improved_tests, FENCE_JAVA, 0) + Len(FENCE_JAVA)
             code_end   == find(improved_tests, FENCE, code_start)
         IN  IF code_end # -1
             THEN strip(Slice(improved_tests, code_start, code_end))
             ELSE improved_tests
    ELSE IF Contains(improved_tests, FENCE)
    THEN LET parts == split(improved_tests, FENCE)
         IN  IF Len(parts) >= 3 THEN strip(parts[2]) ELSE improved_tests
    ELSE improved_tests

\* data.get('suggestions', '') kept as sent, without strip()
suggestions_of_unstripped(raw_suggestions) == raw_suggestions

\* data.get('suggestions', '').strip()
suggestions_of(raw_suggestions) == strip(raw_suggestions)

\* the check with the suggestions forgotten
missing_input_filename_only(filename, suggestions) == filename = <<>>

\* not filename or not suggestions
missing_input(filename, suggestions) == filename = <<>> \/ suggestions = <<>>

\* not generated_tests or not generated_tests.strip()
is_blank(text) == text = <<>> \/ strip(text) = <<>>

----------------------------------------------------------------------------
(* The collaborators: the spec parser and the generation gateway *)

\* SpecParser.parse_openapi_spec(content, extension): fails on a document
\* that is not well-formed for its extension, else the title and the
\* endpoints, a parameter without a name getting the empty name.
parse_fails(content) == ~content.wellformed

parse_openapi_spec(content) ==
    [ title     |-> content.title,
      endpoints |-> [i \in 1..Len(content.endpoints) |->
                        [content.endpoints[i] EXCEPT !.parameters =
                            [k \in 1..Len(@) |-> [has_name |-> TRUE, name |-> param_name(@[k])]]]] ]

----------------------------------------------------------------------------
(* Inputs *)

PET_STORE == <<"P","e","t"," ","S","t","o","r","e">>

PET == <<"P","e","t">>

GetPets(parameters) ==
    [ method |-> <<"G","E","T">>, path |-> <<"/","p","e","t","s">>,
      has_summary |-> FALSE, summary |-> <<>>,
      parameters |-> parameters, responses |-> << <<"2","0","0">> >> ]

Named(name) == [has_name |-> TRUE, name |-> name]

Unnamed == [has_name |-> FALSE, name |-> <<>>]

\* a document that does not parse
BadDoc == [wellformed |-> FALSE, title |-> <<>>, endpoints |-> <<>>]

\* "Pet Store": GET /pets with the parameters id and one without a name
PetStoreDoc ==
    [ wellformed |-> TRUE, title |-> PET_STORE,
      endpoints |-> << GetPets(<< Named(<<"i","d">>), Unnamed >>) >> ]

\* "Pet": GET /pets with one parameter, which has no name
PetDoc ==
    [ wellformed |-> TRUE, title |-> PET, endpoints |-> << GetPets(<< Unnamed >>) >> ]

Contents == {BadDoc, PetStoreDoc, PetDoc}

\* names of the uploaded file that /generate refuses: none selected, a
\* type that is not allowed
RefusedNames == { <<>>, <<"a",".","t","x","t">> }

PETSTORE_JSON == <<"p","e","t","s","t","o","r","e",".","j","s","o","n">>

PET_STORE_YML == <<"p","e","t"," ","s","t","o","r","e",".","y","m","l">>

CODE == <<"x">>

FENCED_CODE == FENCE_JAVA \o <<"\n">> \o CODE \o <<"\n">> \o FENCE

\* what the generation gateway answers: an exception, or a text
Raises == [raises |-> TRUE, text |-> <<>>]

Returns(text) == [raises |-> FALSE, text |-> text]

GenOutcomes == {Raises, Returns(<<>>), Returns(<<" ">>), Returns(CODE), Returns(FENCED_CODE)}

\* the filename of a regenerate request: absent, or one of the artifact names
RequestFilenames == {<<>>, test_filename_of(PET_STORE), test_filename_of(PET)}

\* the suggestions of a regenerate request
RequestSuggestions == {<<>>, <<" ">>, <<"f">>}

----------------------------------------------------------------------------
(* State *)

NoPrompt == [kind |-> "none", original |-> <<>>, existing |-> <<>>, feedback |-> <<>>]

\* the gateway during one request: not called yet
NotCalled == [called |-> FALSE, prompt |-> NoPrompt, raises |-> FALSE, text |-> <<>>]

Called(prompt, outcome) ==
    [called |-> TRUE, prompt |-> prompt, raises |-> outcome.raises, text |-> outcome.text]

NoRequest ==
    [op |-> "none", file_present |-> FALSE, filename |-> <<>>, content |-> BadDoc,
     suggestions |-> <<>>]

\* request.files of a generate request: no 'file' part, or a named file
NoFile == [present |-> FALSE, filename |-> <<>>, content |-> BadDoc]

File(filename, content) == [present |-> TRUE, filename |-> filename, content |-> content]

\* the files a generate request can carry: refused ones, and accepted ones
\* named after the API or not, parsing or not, with either title
RequestFiles ==
    {NoFile}
        \cup {File(n, BadDoc) : n \in RefusedNames}
        \cup {File(PETSTORE_JSON, c) : c \in Contents}
        \cup {File(PET_STORE_YML, PetStoreDoc)}

Response(status, error) ==
    [status |-> status, success |-> FALSE, error |-> error, filename |-> <<>>,
     test_cases |-> <<>>, matched_file |-> <<>>]

Success(filename, test_cases, matched_file) ==
    [status |-> 200, success |-> TRUE, error |-> "", filename |-> filename,
     test_cases |-> test_cases, matched_file |-> matched_file]

\* open(path, 'w').write(text) in the generated-tests folder
write_test(filename, text) ==
    [n \in DOMAIN generated_tests \cup {filename} |->
        IF n = filename THEN text ELSE generated_tests[n]]

\* str(uuid.uuid4()): a value no earlier upload has
uuid4 == <<Digit(next_uuid)>>

Init ==
    /\ uploads = {}
    /\ generated_tests = [n \in {} |-> <<>>]
    /\ next_uuid = 1
    /\ request = NoRequest
    /\ gateway = NotCalled
    /\ response = Response(0, "")

----------------------------------------------------------------------------
(* Handlers *)

\* POST /generate with request.files['file'] (if any); the gateway answers
\* when it is called
generate_tests(file) ==
    LET filename        == secure_filename(file.filename)
        unique_filename == uuid4 \o <<"_">> \o filename
        saved           == uploads \cup {[name |-> unique_filename, content |-> file.content]}
        api_info        == parse_openapi_spec(file.content)
        prompt          == [kind |-> "generate",
                            original |-> create_test_generation_prompt(api_info),
                            existing |-> <<>>, feedback |-> <<>>]
        test_filename   == test_filename_of(api_info.title)
    IN
    /\ request' = [op |-> "generate", file_present |-> file.present,
                   filename |-> file.filename, content |-> file.content,
                   suggestions |-> <<>>]
    /\ IF ~file.present
       THEN /\ response' = Response(400, "No file uploaded")
            /\ gateway' = NotCalled
            /\ UNCHANGED <<uploads, generated_tests, next_uuid>>
       ELSE IF file.filename = <<>>
       THEN /\ response' = Response(400, "No file selected")
            /\ gateway' = NotCalled
            /\ UNCHANGED <<uploads, generated_tests, next_uuid>>
       ELSE IF ~allowed_file(file.filename)
       THEN /\ response' = Response(400, "Invalid file type. Please upload JSON, YAML, or YML files.")
            /\ gateway' = NotCalled
            /\ UNCHANGED <<uploads, generated_tests, next_uuid>>
       ELSE /\ next_uuid <= MaxUploads
            /\ next_uuid' = next_uuid + 1
            /\ IF parse_fails(file.content)
               THEN \* the parser raises: the except clause answers
                    /\ response' = Response(500, "Failed to generate tests")
                    /\ gateway' = NotCalled
                    /\ uploads' = saved
                    /\ UNCHANGED generated_tests
               ELSE \E outcome \in GenOutcomes :
                    /\ gateway' = Called(prompt, outcome)
                    /\ IF outcome.raises
                       THEN /\ response' = Response(500, "Failed to generate tests")
                            /\ uploads' = saved
                            /\ UNCHANGED generated_tests
                       ELSE IF is_blank(outcome.text)
                       THEN /\ response' = Response(500, "Test generation failed or returned empty result.")
                            /\ uploads' = saved
                            /\ UNCHANGED generated_tests
                       ELSE /\ generated_tests' = write_test(test_filename, outcome.text)
                            /\ uploads' = {f \in saved : f.name # unique_filename}
                            /\ response' = Success(test_filename, outcome.text, <<>>)

\* the files of the uploads folder that the loop of regenerate_tests can
\* stop at: os.listdir gives the names in arbitrary order, so the first
\* match is any match
matching_uploads(api_title) == {f \in uploads : matches_upload(api_title, f.name)}

\* regenerate_with storing the raw answer of the gateway while returning
\* the extracted code
regenerate_with_raw_stored(filename, suggestions, matched, outcomes) ==
    LET old_test_code == generated_tests[filename]
        api_info      == parse_openapi_spec(matched.content)
        final_prompt  == [kind |-> "refine",
                          original |-> create_test_generation_prompt(api_info),
                          existing |-> old_test_code, feedback |-> suggestions]
    IN
    IF parse_fails(matched.content)
    THEN /\ response' = Response(500, "Failed to regenerate tests")
         /\ gateway' = NotCalled
         /\ UNCHANGED <<uploads, generated_tests, next_uuid>>
    ELSE \E outcome \in outcomes :
         /\ gateway' = Called(final_prompt, outcome)
         /\ IF outcome.raises
            THEN /\ response' = Response(500, "Failed to regenerate tests")
                 /\ UNCHANGED <<uploads, generated_tests, next_uuid>>
            ELSE LET improved_tests == extractCode(outcome.text)
                 IN  /\ generated_tests' = write_test(filename, outcome.text)
                     /\ response' = Success(filename, improved_tests, matched.name)
                     /\ UNCHANGED <<uploads, next_uuid>>

\* the rest of regenerate_tests once the original spec file is matched; the
\* gateway answers one of `outcomes` when it is called
regenerate_with(filename, suggestions, matched, outcomes) ==
    LET old_test_code == generated_tests[filename]
        api_info      == parse_openapi_spec(matched.content)
        final_prompt  == [kind |-> "refine",
                          original |-> create_test_generation_prompt(api_info),
                          existing |-> old_test_code, feedback |-> suggestions]
    IN
    IF parse_fails(matched.content)
    THEN /\ response' = Response(500, "Failed to regenerate tests")
         /\ gateway' = NotCalled
         /\ UNCHANGED <<uploads, generated_tests, next_uuid>>
    ELSE \E outcome \in outcomes :
         /\ gateway' = Called(final_prompt, outcome)
         /\ IF outcome.raises
            THEN /\ response' = Response(500, "Failed to regenerate tests")
                 /\ UNCHANGED <<uploads, generated_tests, next_uuid>>
            ELSE LET improved_tests == extractCode(outcome.text)
                 IN  /\ generated_tests' = write_test(filename, improved_tests)
                     /\ response' = Success(filename, improved_tests, matched.name)
                     /\ UNCHANGED <<uploads, next_uuid>>

\* POST /regenerate with the JSON fields filename and suggestions
regenerate_tests(filename, raw_suggestions, outcomes) ==
    LET suggestions == suggestions_of(raw_suggestions)
        api_title   == api_title_of(filename)
    IN
    /\ request' = [op |-> "regenerate", file_present |-> FALSE, filename |-> filename,
                   content |-> BadDoc, suggestions |-> raw_suggestions]
    /\ IF missing_input(filename, suggestions)
       THEN /\ response' = Response(400, "Missing filename or suggestions")
            /\ gateway' = NotCalled
            /\ UNCHANGED <<uploads, generated_tests, next_uuid>>
       ELSE IF filename \notin DOMAIN generated_tests
       THEN /\ response' = Response(404, "Test file not found")
            /\ gateway' = NotCalled
            /\ UNCHANGED <<uploads, generated_tests, next_uuid>>
       ELSE IF matching_uploads(api_title) = {}
       THEN /\ response' = Response(404, "Original API file not found for regeneration")
            /\ gateway' = NotCalled
            /\ UNCHANGED <<uploads, generated_tests, next_uuid>>
       ELSE \E matched \in matching_uploads(api_title) :
                regenerate_with(filename, suggestions, matched, outcomes)

Next ==
    \/ \E file \in RequestFiles : generate_tests(file)
    \/ \E filename \in RequestFilenames, raw_suggestions \in RequestSuggestions :
            regenerate_tests(filename, raw_suggestions, GenOutcomes)

Spec == Init /\ [][Next]_vars

----------------------------------------------------------------------------
(* The extraction on many gateway answers *)

\* the pieces a raw gateway answer is put together from
Chunks == { FENCE, <<"j","a","v","a">>, <<BACKTICK>>, <<" ">>, <<"x">> }

RECURSIVE Concats(_)
Concats(k) ==
    IF k = 0 THEN {<<>>}
    ELSE LET shorter == Concats(k - 1)
         IN  shorter \cup {c \o t : c \in Chunks, t \in shorter}

\* every text of at most MaxChunks chunks
RawTexts == Concats(MaxChunks)

PET_STORE_TESTS == test_filename_of(PET_STORE)

\* The state after /generate of petstore.json ("Pet Store") succeeded with
\* CODE and a second /generate of the same file met a gateway exception:
\* the artifact is stored and the second upload is still in the folder.
InitExtract ==
    LET file   == File(PETSTORE_JSON, PetStoreDoc)
        prompt == [kind |-> "generate",
                   original |-> create_test_generation_prompt(parse_openapi_spec(PetStoreDoc)),
                   existing |-> <<>>, feedback |-> <<>>]
    IN
    /\ uploads = {[name |-> <<"2","_">> \o PETSTORE_JSON, content |-> PetStoreDoc]}
    /\ generated_tests = [n \in {PET_STORE_TESTS} |-> CODE]
    /\ next_uuid = 3
    /\ request = [op |-> "generate", file_present |-> TRUE, filename |-> PETSTORE_JSON,
                  content |-> PetStoreDoc, suggestions |-> <<>>]
    /\ gateway = Called(prompt, Raises)
    /\ response = Response(500, "Failed to generate tests")

\* one /regenerate of the artifact, the gateway answering any raw text
NextExtract ==
    /\ request.op = "generate"
    /\ \E raw \in RawTexts :
           regenerate_tests(PET_STORE_TESTS, <<"f">>, {Returns(raw)})

ExtractSpec == InitExtract /\ [][NextExtract]_vars

----------------------------------------------------------------------------
(* Properties *)

NOT_FOUND_ORIGINAL == "Original API file not found for regeneration"

\* the last request was a /regenerate that succeeded
RegenerateSucceeded == request.op = "regenerate" /\ response.success

\* C1: after a generate request succeeded and returned filename F, a
\* following regenerate request with F and non-empty feedback finds the
\* stored code and the original spec file, and succeeds when the gateway
\* returns text.
C1_RefinementReachable ==
    [][ ( /\ request.op = "generate" /\ response.success
          /\ request'.op = "regenerate"
          /\ request'.filename = response.filename
          /\ strip(request'.suggestions) # <<>> )
        => ( /\ response'.error \notin {"Test file not found", NOT_FOUND_ORIGINAL}
             /\ (gateway'.called /\ ~gateway'.raises => response'.success) ) ]_vars

\* C2: a generate request that ends in an error leaves the files of the
\* uploads folder and of the generated-tests folder as they were.
C2_FailedGenerateMutatesNothing ==
    [][ (request'.op = "generate" /\ ~response'.success)
        => (uploads' = uploads /\ generated_tests' = generated_tests) ]_vars

\* C3: when the gateway returns empty or whitespace-only text the request
\* fails, and no stored artifact is empty or whitespace-only.
C3_BlankTextIsFailure ==
    /\ (gateway.called /\ ~gateway.raises /\ is_blank(gateway.text))
           => (~response.success /\ response.status = 500)
    /\ \A n \in DOMAIN generated_tests : ~is_blank(generated_tests[n])

\* the invalid-input condition a regenerate request meets, each of the four
\* taken alone ("none" when it meets none, or the first two together)
InvalidInput ==
    LET feedback == strip(request.suggestions)
    IN  IF request.op # "regenerate" THEN "none"
        ELSE IF request.filename = <<>> /\ feedback = <<>> THEN "none"
        ELSE IF request.filename = <<>> THEN "missing filename"
        ELSE IF feedback = <<>> THEN "empty feedback"
        ELSE IF request.filename \notin DOMAIN generated_tests THEN "missing artifact"
        ELSE IF matching_uploads(api_title_of(request.filename)) = {} THEN "unresolvable spec"
        ELSE "none"

\* C4 as claimed: two regenerate requests that meet different invalid-input
\* conditions are answered with different messages.
C4_FourDistinctMessages ==
    [][ (InvalidInput # "none" /\ InvalidInput' # "none" /\ InvalidInput # InvalidInput')
        => response.error # response'.error ]_vars

\* C4 as amended: a missing filename and an empty feedback share the message
\* 'Missing filename or suggestions'; a missing stored artifact and an
\* unresolvable original spec file each have a message of their own.
C4_ThreeDistinctMessages ==
    /\ InvalidInput \in {"missing filename", "empty feedback"}
           => response.error = "Missing filename or suggestions" /\ response.status = 400
    /\ InvalidInput = "missing artifact"
           => response.error = "Test file not found" /\ response.status = 404
    /\ InvalidInput = "unresolvable spec"
           => response.error = "Original API file not found for regeneration"
              /\ response.status = 404

\* an empty feedback, the filename given, is answered
C4_Witness ==
    /\ InvalidInput = "empty feedback"
    /\ request.filename \in DOMAIN generated_tests
    /\ response.status = 400

\* C5: a regenerate request whose feedback is empty or all whitespace fails
\* with an invalid-input error, the gateway is not called, and the stored
\* artifacts and the uploads folder stay as they were.
C5_EmptyFeedbackRejected ==
    [][ (request'.op = "regenerate" /\ strip(request'.suggestions) = <<>>)
        => ( /\ response'.status = 400
             /\ ~response'.success
             /\ ~gateway'.called
             /\ generated_tests' = generated_tests
             /\ uploads' = uploads ) ]_vars

\* a whitespace-only feedback is refused for an artifact that is stored and
\* whose original spec file would have been found
C5_Witness ==
    /\ request.op = "regenerate"
    /\ request.suggestions = <<" ">>
    /\ request.filename \in DOMAIN generated_tests
    /\ matching_uploads(api_title_of(request.filename)) # {}
    /\ response.status = 400

\* u is t without its leading and trailing whitespace
IsTrimOf(u, t) ==
    \E a \in 0..Len(t) :
        /\ a + Len(u) <= Len(t)
        /\ \A k \in 1..Len(u) : u[k] = t[a + k]
        /\ \A k \in 1..Len(t) : (k <= a \/ k > a + Len(u)) => t[k] \in Whitespace
        /\ u # <<>> => (u[1] \notin Whitespace /\ u[Len(u)] \notin Whitespace)

\* the places of the text where the tagged fence starts
TaggedFences(raw) == {i \in 0..Len(raw) : IsAt(raw, FENCE_JAVA, i)}

\* the places at or after a where a fence marker starts
FencesFrom(raw, a) == {j \in a..Len(raw) : IsAt(raw, FENCE, j)}

\* C6: for a gateway answer that holds the tagged fence, the stored result
\* is the trimmed text between the end of the first tagged fence and the
\* next fence marker, and the answer unchanged when no fence marker follows.
C6_TaggedFenceExtraction ==
    (RegenerateSucceeded /\ TaggedFences(gateway.text) # {}) =>
        LET raw == gateway.text
            out == generated_tests[request.filename]
            a   == Min(TaggedFences(raw)) + Len(FENCE_JAVA)
        IN  IF FencesFrom(raw, a) = {}
            THEN out = raw
            ELSE IsTrimOf(out, Slice(raw, a, Min(FencesFrom(raw, a))))

\* a tagged block whose content is trimmed to a non-empty text
C6_Witness ==
    /\ RegenerateSucceeded
    /\ TaggedFences(gateway.text) # {}
    /\ LET raw == gateway.text
           a   == Min(TaggedFences(raw)) + Len(FENCE_JAVA)
       IN  /\ FencesFrom(raw, a) # {}
           /\ response.test_cases # <<>>
           /\ response.test_cases # Slice(raw, a, Min(FencesFrom(raw, a)))

\* C7: a gateway answer free of fence markers is stored unchanged, and
\* extracting again from the result changes nothing.
C7_PlainTextPassThrough ==
    (RegenerateSucceeded /\ FencesFrom(gateway.text, 0) = {}) =>
        /\ generated_tests[request.filename] = gateway.text
        /\ response.test_cases = gateway.text
        /\ extractCode(extractCode(gateway.text)) = extractCode(gateway.text)

\* an answer without a fence that starts with whitespace and holds a grave
\* accent
C7_Witness ==
    /\ RegenerateSucceeded
    /\ FencesFrom(gateway.text, 0) = {}
    /\ Len(gateway.text) >= 3
    /\ gateway.text[1] \in Whitespace
    /\ \E k \in 1..Len(gateway.text) : gateway.text[k] = BACKTICK
    /\ response.test_cases = gateway.text

\* C8: in the prompt of a generate request, the Parameters line of an
\* endpoint with n >= 1 parameters lists n entries and is not 'None'.
C8_ParameterCountPreserved ==
    (request.op = "generate" /\ gateway.called) =>
        \A i \in 1..Len(request.content.endpoints) :
            LET n    == Len(request.content.endpoints[i].parameters)
                line == gateway.prompt.original.Endpoints[i].Parameters
            IN  n >= 1 => (line # NONE_TEXT /\ Len(split(line, COMMA_SPACE)) = n)

\* C9: a successful regenerate request for F overwrites the artifact F in
\* place with the post-processed text it returns, leaves every other
\* artifact and every upload unchanged, and returns F.
C9_RegenerateOverwritesInPlace ==
    [][ (request'.op = "regenerate" /\ response'.success) =>
            LET F == request'.filename
            IN  /\ response'.filename = F
                /\ F \in DOMAIN generated_tests
                /\ DOMAIN generated_tests' = DOMAIN generated_tests
                /\ generated_tests'[F] = response'.test_cases
                /\ response'.test_cases = extractCode(gateway'.text)
                /\ \A n \in DOMAIN generated_tests : n # F => generated_tests'[n] = generated_tests[n]
                /\ uploads' = uploads ]_vars

\* a fenced answer replaced one artifact while another one is stored
C9_Witness ==
    /\ RegenerateSucceeded
    /\ gateway.text = FENCED_CODE
    /\ generated_tests[request.filename] = CODE
    /\ \E n \in DOMAIN generated_tests : n # request.filename
    /\ uploads # {}

\* C10: the upload a regenerate request for F builds the original prompt
\* from is one whose title gives the filename F.
C10_MatchedUploadProducedF ==
    (RegenerateSucceeded /\ response.matched_file # <<>>) =>
        \A f \in uploads :
            f.name = response.matched_file =>
                test_filename_of(parse_openapi_spec(f.content).title) = request.filename

====
